---- MODULE Spec2Model ----
(***************************************************************************)
(* The roster multiplexer of SleekXMPP (sleekxmpp/roster/multi.py, class   *)
(* Roster): a mapping from JID to RosterNode with lazy creation, default   *)
(* propagation, datastore hookup and bulk reset.                           *)
(*                                                                         *)
(* A Python string is a sequence of characters; the characters are small   *)
(* naturals and Sep stands for "/".  <<1>> reads "user1@host" and          *)
(* <<1, Sep, 1>> reads "user1@host/res1".  A value handed to the roster is *)
(* either a JID object or a plain str: [isJID, text].                      *)
(***************************************************************************)
EXTENDS Integers, Sequences, FiniteSets, TLC

VARIABLES
    db,              \* self.db: None or a datastore object
    auto_authorize,  \* self.auto_authorize
    auto_subscribe,  \* self.auto_subscribe
    rosters,         \* self._rosters: dict from str to RosterNode
    made,            \* per jid, how many RosterNode objects were constructed for it
    lastOp,          \* the name of the call that produced this state
    ret,             \* what that call returned or raised
    enum,            \* the outcomes of the db.entries calls made by that call
    thr              \* per thread, the call it is inside and that call's locals

vars == <<db, auto_authorize, auto_subscribe, rosters, made, lastOp, ret, enum, thr>>

----------------------------------------------------------------------------
\* Bounds of the model.

\* number of JID strings in play: the first NumJid of
\* "user1@host", "user1@host/res", "user2@host", "user2@host/res", ...
NumJid == 2

----------------------------------------------------------------------------
\* Values.

\* Python's None
None == 0
\* the character "/" that separates the bare JID from the resource
Sep == 0

\* the datastore objects in play (None is not one of them)
DBs == {1}

StrAt(i) == IF i % 2 = 1 THEN <<(i + 1) \div 2>> ELSE <<i \div 2, Sep, i \div 2>>
Strs == {StrAt(i) : i \in 1..NumJid}

\* what a caller may pass as key/node: a JID object or a str
Values == [isJID : BOOLEAN, text : Strs]
\* a str value
Str(s) == [isJID |-> FALSE, text |-> s]

\* strs that are no JID: "/res1" has a resource and nothing before it
Malformed == {Str(<<Sep, 1>>)}
\* every str that can become a key
KeyStrs == Strs \cup {v.text : v \in Malformed}

\* what db.entries(None, {}) may return: the persisted JIDs, as strs
\* (an iterable; the order of its elements does not reach the roster's state)
EntryLists == SUBSET {Str(s) : s \in Strs}

\* the outcome of a call of db.entries(None, {}): it returns items, or it raises
Returned(items) == [raised |-> FALSE, items |-> items]
Raised == [raised |-> TRUE, items |-> {}]
Entries == {Returned(items) : items \in EntryLists} \cup {Raised}

Flags == {"True", "False"}

\* JID.bare: the text up to the first "/"
RECURSIVE bare(_)
bare(s) ==
    IF s = <<>> \/ Head(s) = Sep THEN <<>> ELSE <<Head(s)>> \o bare(Tail(s))

\* RosterNode(xmpp, jid, db): a fresh object that keeps its own default flags.
\* id is the object's identity: the n-th RosterNode constructed for jid.
\* sb_calls and reset_calls log the set_backend and reset calls the node
\* received during the roster call in progress.
RosterNode(jid, d, n) ==
    [id |-> <<jid, n>>, jid |-> jid, db |-> d,
     auto_authorize |-> "NodeDefault", auto_subscribe |-> "NodeDefault",
     sb_calls |-> <<>>, reset_calls |-> 0]

\* RosterNode.set_backend(db)
node_set_backend(n, d) == [n EXCEPT !.db = d, !.sb_calls = Append(@, d)]

\* RosterNode.reset()
node_reset(n) == [n EXCEPT !.reset_calls = @ + 1]

\* a new roster call starts: the per-call logs of the nodes are cleared
ClearLog(R) == [k \in DOMAIN R |-> [R[k] EXCEPT !.sb_calls = <<>>, !.reset_calls = 0]]

\* the threads that may call into the roster
Threads == {"t1", "t2"}

\* a thread that has not called yet.  pc is the line it stands before, caller
\* the method that called add, and the other fields are the locals of the call:
\* node/key (arg, key), db (d), the entries still to be added (es, raised),
\* the RosterNode just constructed (new), the dict iterator of line 106
\* (size, todo), and how the call ended (status, result).
Idle ==
    [pc |-> "idle", op |-> "none", caller |-> "none",
     arg |-> [isJID |-> FALSE, text |-> <<>>], key |-> <<>>,
     d |-> None, es |-> {}, raised |-> FALSE, new |-> <<>>,
     size |-> 0, todo |-> {}, status |-> "ok", result |-> <<>>]

\* the Roster object
Self ==
    [db |-> db, auto_authorize |-> auto_authorize, auto_subscribe |-> auto_subscribe,
     rosters |-> ClearLog(rosters), made |-> made]

----------------------------------------------------------------------------
\* The methods of Roster, as functions of the object.

\* add as it would be without the membership test: it always constructs a node
add_overwrite(self, node) ==
    LET key == IF node.isJID THEN bare(node.text) ELSE node.text
    IN  [self EXCEPT !.rosters = (key :> RosterNode(key, self.db, self.made[key] + 1)) @@ @,
                     !.made[key] = @ + 1]

\* add as it would be if it constructed the node without the datastore
add_unbound(self, node) ==
    LET key == IF node.isJID THEN bare(node.text) ELSE node.text
    IN  IF key \notin DOMAIN self.rosters
        THEN [self EXCEPT !.rosters = (key :> RosterNode(key, None, self.made[key] + 1)) @@ @,
                          !.made[key] = @ + 1]
        ELSE self

\* Roster.add(node)
add(self, node) ==
    LET key == IF node.isJID THEN bare(node.text) ELSE node.text
    IN  IF key \notin DOMAIN self.rosters
        THEN [self EXCEPT !.rosters = (key :> RosterNode(key, self.db, self.made[key] + 1)) @@ @,
                          !.made[key] = @ + 1]
        ELSE self

\* for node in self.db.entries(None, {}): self.add(node)
RECURSIVE add_entries(_, _)
add_entries(self, es) ==
    IF es = {} THEN self
    ELSE LET node == CHOOSE e \in es : TRUE
         IN  add_entries(add(self, node), es \ {node})

\* __init__ as it would be if it loaded the entries before it assigned self.db
init_loads_before_db(d, es) ==
    LET self == [db |-> None, auto_authorize |-> "True", auto_subscribe |-> "True",
                 rosters |-> [k \in {} |-> 0], made |-> [k \in KeyStrs |-> 0]]
    IN  IF d = None THEN [self |-> self, status |-> "ok", enum |-> <<>>]
        ELSE IF es.raised
        THEN [self |-> self, status |-> "DatastoreError", enum |-> <<es>>]
        ELSE [self |-> [add_entries(self, es.items) EXCEPT !.db = d],
              status |-> "ok", enum |-> <<es>>]

\* Roster.__init__(xmpp, db); es is the outcome of db.entries if it is called.
\* Nothing catches what db.entries raises: it leaves __init__.
init(d, es) ==
    LET self == [db |-> d, auto_authorize |-> "True", auto_subscribe |-> "True",
                 rosters |-> [k \in {} |-> 0], made |-> [k \in KeyStrs |-> 0]]
    IN  IF d = None THEN [self |-> self, status |-> "ok", enum |-> <<>>]
        ELSE IF es.raised
        THEN [self |-> self, status |-> "DatastoreError", enum |-> <<es>>]
        ELSE [self |-> add_entries(self, es.items), status |-> "ok", enum |-> <<es>>]

\* __getitem__ as it would be if line 73 copied auto_authorize again
getitem_copies_authorize(self, key) ==
    LET k == IF key.isJID THEN bare(key.text) ELSE key.text
        s == IF k \notin DOMAIN self.rosters
             THEN LET a == add(self, key)
                  IN  [a EXCEPT !.rosters[k].auto_authorize = self.auto_authorize,
                                !.rosters[k].auto_subscribe = self.auto_authorize]
             ELSE self
    IN  [self |-> s, node |-> s.rosters[k].id]

\* __getitem__ as it would be if the two assignments were outside the if
getitem_always_sets(self, key) ==
    LET k == IF key.isJID THEN bare(key.text) ELSE key.text
        a == IF k \notin DOMAIN self.rosters THEN add(self, key) ELSE self
        s == [a EXCEPT !.rosters[k].auto_authorize = self.auto_authorize,
                       !.rosters[k].auto_subscribe = self.auto_subscribe]
    IN  [self |-> s, node |-> s.rosters[k].id]

\* Roster.__getitem__(key)
getitem(self, key) ==
    LET k == IF key.isJID THEN bare(key.text) ELSE key.text
        s == IF k \notin DOMAIN self.rosters
             THEN LET a == add(self, key)
                  IN  [a EXCEPT !.rosters[k].auto_authorize = self.auto_authorize,
                                !.rosters[k].auto_subscribe = self.auto_subscribe]
             ELSE self
    IN  [self |-> s, node |-> s.rosters[k].id]

\* Roster.keys()
keys(self) == DOMAIN self.rosters

\* Roster.__iter__()
iter(self) == DOMAIN self.rosters

\* for node in self._rosters: self._rosters[node].set_backend(db)
RECURSIVE set_backend_loop(_, _, _)
set_backend_loop(R, todo, d) ==
    IF todo = {} THEN R
    ELSE LET node == CHOOSE k \in todo : TRUE
         IN  set_backend_loop([R EXCEPT ![node] = node_set_backend(@, d)],
                              todo \ {node}, d)

\* set_backend as it would be with its two loops in the other order
set_backend_propagates_first(self, d, es) ==
    LET s1 == [self EXCEPT !.db = d]
    IN  IF d = None
        THEN [self |-> s1, status |-> "AttributeError", enum |-> <<>>]
        ELSE LET s2 == [s1 EXCEPT !.rosters =
                           set_backend_loop(s1.rosters, DOMAIN s1.rosters, d)]
             IN  IF es.raised
                 THEN [self |-> s2, status |-> "DatastoreError", enum |-> <<es>>]
                 ELSE [self |-> add_entries(s2, es.items), status |-> "ok",
                       enum |-> <<es>>]

\* set_backend as it would be if it rebuilt the mapping from the new datastore
set_backend_reloads(self, d, es) ==
    LET s1 == [self EXCEPT !.db = d]
    IN  IF d = None
        THEN [self |-> s1, status |-> "AttributeError", enum |-> <<>>]
        ELSE IF es.raised
        THEN [self |-> s1, status |-> "DatastoreError", enum |-> <<es>>]
        ELSE LET s2 == add_entries([s1 EXCEPT !.rosters = [k \in {} |-> 0]], es.items)
             IN  [self |-> [s2 EXCEPT !.rosters =
                               set_backend_loop(s2.rosters, DOMAIN s2.rosters, d)],
                  status |-> "ok", enum |-> <<es>>]

\* set_backend as it would be if it caught what db.entries raises and went on
set_backend_swallows(self, d, es) ==
    LET s1 == [self EXCEPT !.db = d]
    IN  IF d = None
        THEN [self |-> s1, status |-> "AttributeError", enum |-> <<>>]
        ELSE LET s2 == add_entries(s1, es.items)
             IN  [self |-> [s2 EXCEPT !.rosters =
                               set_backend_loop(s2.rosters, DOMAIN s2.rosters, d)],
                  status |-> "ok", enum |-> <<es>>]

\* Roster.set_backend(db); es is the outcome of db.entries if it is called.
\* With db = None, self.db.entries raises AttributeError after self.db is set.
\* Nothing catches what db.entries raises: it leaves set_backend at line 104.
set_backend(self, d, es) ==
    LET s1 == [self EXCEPT !.db = d]
    IN  IF d = None
        THEN [self |-> s1, status |-> "AttributeError", enum |-> <<>>]
        ELSE IF es.raised
        THEN [self |-> s1, status |-> "DatastoreError", enum |-> <<es>>]
        ELSE LET s2 == add_entries(s1, es.items)
             IN  [self |-> [s2 EXCEPT !.rosters =
                               set_backend_loop(s2.rosters, DOMAIN s2.rosters, d)],
                  status |-> "ok", enum |-> <<es>>]

\* for node in self: self[node].reset()
\* A dict that changes size while it is iterated raises RuntimeError.
RECURSIVE reset_loop(_, _)
reset_loop(self, todo) ==
    IF todo = {} THEN [self |-> self, status |-> "ok"]
    ELSE LET node == CHOOSE k \in todo : TRUE
             g == getitem(self, Str(node))
             s == [g.self EXCEPT !.rosters[node] = node_reset(@)]
         IN  IF DOMAIN s.rosters # DOMAIN self.rosters
             THEN [self |-> s, status |-> "RuntimeError"]
             ELSE reset_loop(s, todo \ {node})

\* reset as it would be if it forgot the nodes instead of resetting them
reset_forgets(self) ==
    [self |-> [self EXCEPT !.rosters = [k \in {} |-> 0]], status |-> "ok"]

\* Roster.reset()
reset(self) == reset_loop(self, iter(self))

----------------------------------------------------------------------------
\* The state machine: one action per call on the roster.

Ret(status, node, ks) == [status |-> status, node |-> node, keys |-> ks]

\* the caller holds a roster: __init__ returned one
Constructed == ~(lastOp = "__init__" /\ ret.status # "ok")

Store(self) ==
    /\ Constructed
    /\ thr' = thr
    /\ db' = self.db
    /\ auto_authorize' = self.auto_authorize
    /\ auto_subscribe' = self.auto_subscribe
    /\ rosters' = self.rosters
    /\ made' = self.made

\* roster = Roster(xmpp, db)
Init ==
    \E d \in {None} \cup DBs, es \in Entries :
        LET r == init(d, es)
        IN  /\ d = None => es = Returned({})
            /\ db = r.self.db
            /\ auto_authorize = r.self.auto_authorize
            /\ auto_subscribe = r.self.auto_subscribe
            /\ rosters = r.self.rosters
            /\ made = r.self.made
            /\ lastOp = "__init__"
            /\ ret = Ret(r.status, <<>>, {})
            /\ enum = r.enum
            /\ thr = [t \in Threads |-> Idle]

\* roster[key]
GetItem(key) ==
    LET r == getitem(Self, key)
    IN  /\ Store(r.self)
        /\ lastOp' = "__getitem__"
        /\ ret' = Ret("ok", r.node, {})
        /\ enum' = <<>>

\* roster.add(node)
Add(node) ==
    /\ Store(add(Self, node))
    /\ lastOp' = "add"
    /\ ret' = Ret("ok", <<>>, {})
    /\ enum' = <<>>

\* roster.keys()
Keys ==
    /\ Store(Self)
    /\ lastOp' = "keys"
    /\ ret' = Ret("ok", <<>>, keys(Self))
    /\ enum' = <<>>

\* iter(roster)
Iter ==
    /\ Store(Self)
    /\ lastOp' = "__iter__"
    /\ ret' = Ret("ok", <<>>, iter(Self))
    /\ enum' = <<>>

\* roster.set_backend(d)
SetBackend(d, es) ==
    LET r == set_backend(Self, d, es)
    IN  /\ d = None => es = Returned({})
        /\ Store(r.self)
        /\ lastOp' = "set_backend"
        /\ ret' = Ret(r.status, <<>>, {})
        /\ enum' = r.enum

\* roster.reset()
Reset ==
    LET r == reset(Self)
    IN  /\ Store(r.self)
        /\ lastOp' = "reset"
        /\ ret' = Ret(r.status, <<>>, {})
        /\ enum' = <<>>

\* roster.auto_authorize = b
SetAutoAuthorize(b) ==
    /\ Store([Self EXCEPT !.auto_authorize = b])
    /\ lastOp' = "auto_authorize"
    /\ ret' = Ret("ok", <<>>, {})
    /\ enum' = <<>>

\* roster.auto_subscribe = b
SetAutoSubscribe(b) ==
    /\ Store([Self EXCEPT !.auto_subscribe = b])
    /\ lastOp' = "auto_subscribe"
    /\ ret' = Ret("ok", <<>>, {})
    /\ enum' = <<>>

Next ==
    \/ \E key \in Values : GetItem(key)
    \/ \E node \in Values : Add(node)
    \/ Keys
    \/ Iter
    \/ \E d \in {None} \cup DBs, es \in Entries : SetBackend(d, es)
    \/ Reset
    \/ \E b \in Flags : SetAutoAuthorize(b)
    \/ \E b \in Flags : SetAutoSubscribe(b)

Spec == Init /\ [][Next]_vars

\* The roster with callers that also pass strs that are no JID.
NextAnyInput ==
    \/ Next
    \/ \E key \in Malformed : GetItem(key)
    \/ \E node \in Malformed : Add(node)

SpecAnyInput == Init /\ [][NextAnyInput]_vars

----------------------------------------------------------------------------
\* The roster called by two threads.  Roster takes no lock, so the threads
\* interleave between any two accesses to the object: each action below is one
\* access to self._rosters, self.db or a node, with the local work around it.

Frame == UNCHANGED <<lastOp, ret, enum>>

\* thread t goes on as record r
Goto(t, r) == thr' = [thr EXCEPT ![t] = r]

\* where a thread goes on when add returns
AfterAdd(me) ==
    CASE me.caller = "top" -> [me EXCEPT !.pc = "done"]
      [] me.caller = "__getitem__" -> [me EXCEPT !.pc = "get_authorize"]
      [] me.caller = "set_backend" -> [me EXCEPT !.pc = "sb_seed"]

\* t calls roster.add(node); lines 91-92 find the key
TAdd(t, node) ==
    /\ Constructed
    /\ thr[t].pc = "idle"
    /\ Goto(t, [thr[t] EXCEPT !.pc = "add_test", !.op = "add", !.caller = "top",
                              !.arg = node,
                              !.key = IF node.isJID THEN bare(node.text) ELSE node.text])
    /\ UNCHANGED <<db, auto_authorize, auto_subscribe, rosters, made>>
    /\ Frame

\* line 93: if node not in self._rosters
AddTest(t) ==
    /\ thr[t].pc = "add_test"
    /\ Goto(t, IF thr[t].key \in DOMAIN rosters
               THEN AfterAdd(thr[t])
               ELSE [thr[t] EXCEPT !.pc = "add_make"])
    /\ UNCHANGED <<db, auto_authorize, auto_subscribe, rosters, made>>
    /\ Frame

\* line 94, right-hand side: RosterNode(self.xmpp, node, self.db)
AddMake(t) ==
    /\ thr[t].pc = "add_make"
    /\ Goto(t, [thr[t] EXCEPT !.pc = "add_store",
                              !.new = <<RosterNode(thr[t].key, db, made[thr[t].key] + 1)>>])
    /\ made' = [made EXCEPT ![thr[t].key] = @ + 1]
    /\ UNCHANGED <<db, auto_authorize, auto_subscribe, rosters>>
    /\ Frame

\* line 94, the store: self._rosters[node] = ...
AddStore(t) ==
    /\ thr[t].pc = "add_store"
    /\ rosters' = (thr[t].key :> thr[t].new[1]) @@ rosters
    /\ Goto(t, AfterAdd([thr[t] EXCEPT !.new = <<>>]))
    /\ UNCHANGED <<db, auto_authorize, auto_subscribe, made>>
    /\ Frame

\* t calls roster[key]; lines 68-69 find the key
TGetItem(t, key) ==
    /\ Constructed
    /\ thr[t].pc = "idle"
    /\ Goto(t, [thr[t] EXCEPT !.pc = "get_test", !.op = "__getitem__",
                              !.arg = key,
                              !.key = IF key.isJID THEN bare(key.text) ELSE key.text])
    /\ UNCHANGED <<db, auto_authorize, auto_subscribe, rosters, made>>
    /\ Frame

\* line 70: if key not in self._rosters; line 71 calls self.add(key)
GetTest(t) ==
    /\ thr[t].pc = "get_test"
    /\ Goto(t, IF thr[t].key \in DOMAIN rosters
               THEN [thr[t] EXCEPT !.pc = "get_return"]
               ELSE [thr[t] EXCEPT !.pc = "add_test", !.caller = "__getitem__"])
    /\ UNCHANGED <<db, auto_authorize, auto_subscribe, rosters, made>>
    /\ Frame

\* line 72: self._rosters[key].auto_authorize = self.auto_authorize
GetAuthorize(t) ==
    /\ thr[t].pc = "get_authorize"
    /\ rosters' = [rosters EXCEPT ![thr[t].key].auto_authorize = auto_authorize]
    /\ Goto(t, [thr[t] EXCEPT !.pc = "get_subscribe"])
    /\ UNCHANGED <<db, auto_authorize, auto_subscribe, made>>
    /\ Frame

\* line 73: self._rosters[key].auto_subscribe = self.auto_subscribe
GetSubscribe(t) ==
    /\ thr[t].pc = "get_subscribe"
    /\ rosters' = [rosters EXCEPT ![thr[t].key].auto_subscribe = auto_subscribe]
    /\ Goto(t, [thr[t] EXCEPT !.pc = "get_return"])
    /\ UNCHANGED <<db, auto_authorize, auto_subscribe, made>>
    /\ Frame

\* line 74: return self._rosters[key]
GetReturn(t) ==
    /\ thr[t].pc = "get_return"
    /\ Goto(t, [thr[t] EXCEPT !.pc = "done", !.result = rosters[thr[t].key].id])
    /\ UNCHANGED <<db, auto_authorize, auto_subscribe, rosters, made>>
    /\ Frame

\* t calls roster.set_backend(d); es is the outcome db.entries will have
TSetBackend(t, d, es) ==
    /\ Constructed
    /\ thr[t].pc = "idle"
    /\ d = None => es = Returned({})
    /\ Goto(t, [thr[t] EXCEPT !.pc = "sb_assign", !.op = "set_backend", !.d = d,
                              !.es = es.items, !.raised = es.raised])
    /\ UNCHANGED <<db, auto_authorize, auto_subscribe, rosters, made>>
    /\ Frame

\* line 103: self.db = db
SbAssign(t) ==
    /\ thr[t].pc = "sb_assign"
    /\ db' = thr[t].d
    /\ Goto(t, [thr[t] EXCEPT !.pc = "sb_entries"])
    /\ UNCHANGED <<auto_authorize, auto_subscribe, rosters, made>>
    /\ Frame

\* line 104: self.db.entries(None, {}), on what self.db is at this moment
SbEntries(t) ==
    /\ thr[t].pc = "sb_entries"
    /\ Goto(t, IF db = None
               THEN [thr[t] EXCEPT !.pc = "done", !.status = "AttributeError"]
               ELSE IF thr[t].raised
               THEN [thr[t] EXCEPT !.pc = "done", !.status = "DatastoreError"]
               ELSE [thr[t] EXCEPT !.pc = "sb_seed"])
    /\ UNCHANGED <<db, auto_authorize, auto_subscribe, rosters, made>>
    /\ Frame

\* lines 104-105: the next entry goes to self.add; after the last, line 106
\* makes the iterator over self._rosters, which notes the dict's size
SbSeed(t) ==
    /\ thr[t].pc = "sb_seed"
    /\ Goto(t, IF thr[t].es = {}
               THEN [thr[t] EXCEPT !.pc = "sb_next", !.size = Cardinality(DOMAIN rosters),
                                   !.todo = DOMAIN rosters]
               ELSE LET node == CHOOSE e \in thr[t].es : TRUE
                    IN  [thr[t] EXCEPT !.pc = "add_test", !.caller = "set_backend",
                                       !.es = @ \ {node}, !.key = node.text])
    /\ UNCHANGED <<db, auto_authorize, auto_subscribe, rosters, made>>
    /\ Frame

\* lines 106-107: the iterator's next, which raises RuntimeError when the dict
\* has changed size, and self._rosters[node].set_backend(db)
SbNext(t) ==
    /\ thr[t].pc = "sb_next"
    /\ IF Cardinality(DOMAIN rosters) # thr[t].size
       THEN /\ Goto(t, [thr[t] EXCEPT !.pc = "done", !.status = "RuntimeError"])
            /\ UNCHANGED rosters
       ELSE IF thr[t].todo = {}
       THEN /\ Goto(t, [thr[t] EXCEPT !.pc = "done"])
            /\ UNCHANGED rosters
       ELSE LET node == CHOOSE k \in thr[t].todo : TRUE
            IN  /\ rosters' = [rosters EXCEPT ![node] = node_set_backend(@, thr[t].d)]
                /\ Goto(t, [thr[t] EXCEPT !.todo = @ \ {node}])
    /\ UNCHANGED <<db, auto_authorize, auto_subscribe, made>>
    /\ Frame

NextThreads ==
    \E t \in Threads :
        \/ \E node \in Values : TAdd(t, node)
        \/ AddTest(t)
        \/ AddMake(t)
        \/ AddStore(t)
        \/ \E key \in Values : TGetItem(t, key)
        \/ GetTest(t)
        \/ GetAuthorize(t)
        \/ GetSubscribe(t)
        \/ GetReturn(t)
        \/ \E d \in {None} \cup DBs, es \in Entries : TSetBackend(t, d, es)
        \/ SbAssign(t)
        \/ SbEntries(t)
        \/ SbSeed(t)
        \/ SbNext(t)

SpecThreads == Init /\ [][NextThreads]_vars

----------------------------------------------------------------------------
\* Claims.

\* the fields of a node that make up its state for a caller of the roster
Visible(n) == [id |-> n.id, jid |-> n.jid, db |-> n.db,
               auto_authorize |-> n.auto_authorize, auto_subscribe |-> n.auto_subscribe]

\* C1: lookups of identities with the same bare form return the same node
\* instance, and after a lookup the mapping holds exactly one node for that
\* bare form.  (Stated for two lookups in a row; the code breaks it there.)
C1_SameNodePerBareForm ==
    [][lastOp' = "__getitem__" => \A key \in Values : GetItem(key) =>
          /\ Cardinality({k \in DOMAIN rosters' : bare(k) = bare(key.text)}) = 1
          /\ (lastOp = "__getitem__" /\ bare(ret.node[1]) = bare(key.text))
                => ret'.node = ret.node]_vars

\* C2: every key of the mapping, and every key keys() reports, is a bare JID.
C2_KeysAreBare ==
    /\ \A k \in DOMAIN rosters : bare(k) = k
    /\ lastOp = "keys" => \A k \in ret.keys : bare(k) = k

\* C3: no call removes a key or replaces the node instance bound to a key.
C3_NodesNeverRemovedOrReplaced ==
    [][/\ DOMAIN rosters \subseteq DOMAIN rosters'
       /\ \A k \in DOMAIN rosters \cap DOMAIN rosters' : rosters'[k].id = rosters[k].id]_vars

\* a node made by __getitem__ has lived through a successful set_backend and a reset
C3_Witness ==
    /\ lastOp = "reset"
    /\ \E k \in DOMAIN rosters :
          /\ rosters[k].auto_authorize # "NodeDefault"
          /\ rosters[k].db # None
          /\ rosters[k].id = <<k, 1>>

\* C4: in the state add(i) leaves, keys() contains i's bare form (a dict holds
\* a key once), and a second add(i) changes nothing: no node is made, and no
\* node's instance, flags or datastore binding changes.
C4_AddIdempotent ==
    [][lastOp' = "add" => \A i \in Values : Add(i) =>
          LET after == [db |-> db', auto_authorize |-> auto_authorize',
                        auto_subscribe |-> auto_subscribe',
                        rosters |-> rosters', made |-> made']
          IN  /\ bare(i.text) \in DOMAIN rosters'
              /\ add(after, i) = after]_vars

\* the elements of a sequence
Range(q) == {q[i] : i \in DOMAIN q}

\* the strs an enumeration returned
Texts(es) == {e.text : e \in es.items}

\* C5: set_backend(d) with a datastore d whose enumeration reports E, on a roster
\* with key set K, completes with keys() = K \cup E and self.db = d, and every
\* node of the mapping has received set_backend(d) exactly once.
C5_SetBackendPropagates ==
    [][lastOp' = "set_backend" => \A d \in DBs, es \in Range(enum') :
          ~es.raised /\ SetBackend(d, es) =>
          /\ ret'.status = "ok"
          /\ enum' = <<es>>
          /\ DOMAIN rosters' = DOMAIN rosters \cup Texts(es)
          /\ db' = d
          /\ \A k \in DOMAIN rosters' : rosters'[k].sb_calls = <<d>> /\ rosters'[k].db = d]_vars

\* set_backend has run on a roster that held a node made by __getitem__ which the
\* enumeration did not report, and the enumeration reported something
C5_Witness ==
    /\ lastOp = "set_backend"
    /\ ret.status = "ok"
    /\ Len(enum) = 1
    /\ Texts(enum[1]) # {}
    /\ \E k \in DOMAIN rosters \ Texts(enum[1]) :
          /\ rosters[k].auto_authorize # "NodeDefault"
          /\ rosters[k].sb_calls = <<db>>

\* C6: right after construction with a datastore reporting E, keys() = E, every
\* node is bound to that datastore and keeps its own default flags; without a
\* datastore the mapping is empty and db.entries was not called; both defaults
\* of the roster are True.
C6_Construction ==
    lastOp = "__init__" /\ ret.status = "ok" =>
        /\ auto_authorize = "True"
        /\ auto_subscribe = "True"
        /\ db # None =>
              /\ Len(enum) = 1
              /\ DOMAIN rosters = Texts(enum[1])
              /\ \A k \in DOMAIN rosters :
                    /\ rosters[k].db = db
                    /\ rosters[k].auto_authorize = "NodeDefault"
                    /\ rosters[k].auto_subscribe = "NodeDefault"
        /\ db = None => DOMAIN rosters = {} /\ enum = <<>>

\* a roster constructed with a datastore that reported two JIDs
C6_Witness ==
    /\ lastOp = "__init__"
    /\ ret.status = "ok"
    /\ db # None
    /\ Cardinality(DOMAIN rosters) = 2

\* C7: a lookup that finds no node for the identity makes one, and the node a
\* lookup makes and returns carries the roster's defaults as they are at that call.
C7_NewNodeGetsCurrentDefaults ==
    [][lastOp' = "__getitem__" => \A key \in Values : GetItem(key) =>
          LET absent == \A k \in DOMAIN rosters : bare(k) # bare(key.text)
              n == ret'.node
          IN  (absent \/ made' # made) =>
                 /\ n[1] \in DOMAIN rosters' \ DOMAIN rosters
                 /\ rosters'[n[1]].id = n
                 /\ rosters'[n[1]].auto_authorize = auto_authorize
                 /\ rosters'[n[1]].auto_subscribe = auto_subscribe]_vars

\* a lookup returned a node whose flags are not the initial True/True and
\* equal the roster's defaults
C7_Witness ==
    /\ lastOp = "__getitem__"
    /\ auto_authorize = "False"
    /\ auto_subscribe = "True"
    /\ rosters[ret.node[1]].id = ret.node
    /\ rosters[ret.node[1]].auto_authorize = "False"
    /\ rosters[ret.node[1]].auto_subscribe = "True"

\* C8: no call changes the flags of a node that exists, and a node is born with
\* written flags only in __getitem__.
C8_FlagsWrittenOnlyAtLookupCreation ==
    [][/\ \A k \in DOMAIN rosters \cap DOMAIN rosters' :
             /\ rosters'[k].auto_authorize = rosters[k].auto_authorize
             /\ rosters'[k].auto_subscribe = rosters[k].auto_subscribe
       /\ \A k \in DOMAIN rosters' \ DOMAIN rosters :
             (rosters'[k].auto_authorize # "NodeDefault" \/ rosters'[k].auto_subscribe # "NodeDefault")
                => lastOp' = "__getitem__"]_vars

\* a lookup returned an existing node whose flags differ from the roster's
\* defaults, which were changed after the node was made
C8_Witness ==
    /\ lastOp = "__getitem__"
    /\ rosters[ret.node[1]].auto_authorize = "True"
    /\ auto_authorize = "False"

\* C9: reset returns normally, calls reset exactly once on every node of the
\* mapping, constructs no node, and leaves the keys, the node instances with
\* their flags and bindings, the defaults and self.db as they were.
C9_ResetFrame ==
    [][lastOp' = "reset" =>
          /\ ret'.status = "ok"
          /\ DOMAIN rosters' = DOMAIN rosters
          /\ made' = made
          /\ \A k \in DOMAIN rosters' :
                /\ rosters'[k].reset_calls = 1
                /\ Visible(rosters'[k]) = Visible(rosters[k])
          /\ <<db, auto_authorize, auto_subscribe>>' = <<db, auto_authorize, auto_subscribe>>]_vars

\* reset has run on a roster with two nodes
C9_Witness ==
    /\ lastOp = "reset"
    /\ Cardinality(DOMAIN rosters) = 2
    /\ \A k \in DOMAIN rosters : rosters[k].reset_calls = 1

\* C10: set_backend(None) is reported as PreconditionFailed, adds no key and
\* calls no node's set_backend.
C10_NullBackendRejected ==
    [][lastOp' = "set_backend" => (SetBackend(None, Returned({})) =>
          /\ ret'.status = "PreconditionFailed"
          /\ DOMAIN rosters' = DOMAIN rosters
          /\ \A k \in DOMAIN rosters' : rosters'[k].sb_calls = <<>>)]_vars

C12_MalformedRejected ==
    [][lastOp' \in {"add", "__getitem__"} =>
          \A v \in Malformed : (Add(v) \/ GetItem(v)) =>
             /\ ret'.status = "InvalidIdentity"
             /\ DOMAIN rosters' = DOMAIN rosters
             /\ made' = made]_vars

\* the identity a value introduces: a JID object its bare JID, a str itself
Identity(v) == IF v.isJID THEN bare(v.text) ELSE v.text

\* the identities the enumerations of a call returned
Enumerated(q) == UNION {{Identity(e) : e \in r.items} : r \in Range(q)}

\* C13: keys() and __iter__ report the same identities, each as one key, and
\* these are exactly the identities introduced so far: construction introduces
\* those its enumeration returned, add and __getitem__ the identity of their
\* argument, set_backend those its enumeration returned, and no call
\* introduces any other key or drops one.
C13_KeysAreTheIntroducedIdentities ==
    /\ lastOp = "__init__" => keys(Self) = Enumerated(enum)
    /\ [][LET self == Self
              now == [db |-> db', auto_authorize |-> auto_authorize',
                      auto_subscribe |-> auto_subscribe',
                      rosters |-> rosters', made |-> made']
              before == keys(self)
              after == keys(now)
          IN  /\ after = iter(now)
              /\ lastOp' \in {"keys", "__iter__"} => ret'.keys = after
              /\ lastOp' = "add" =>
                    \A i \in Values :
                       add(self, i) = now => after = before \cup {Identity(i)}
              /\ lastOp' = "__getitem__" =>
                    \A i \in Values :
                       getitem(self, i).self = now => after = before \cup {Identity(i)}
              /\ lastOp' = "set_backend" => after = before \cup Enumerated(enum')
              /\ lastOp' \notin {"add", "__getitem__", "set_backend"} =>
                    after = before]_vars

\* keys() has reported two identities, one introduced by a lookup and one
\* by an add or an enumeration
C13_Witness ==
    /\ lastOp = "keys"
    /\ Cardinality(ret.keys) = 2
    /\ \E k \in ret.keys : rosters[k].auto_authorize # "NodeDefault"
    /\ \E k \in ret.keys : rosters[k].auto_authorize = "NodeDefault"

\* C15: in every state of a roster driven by one caller, also after a
\* set_backend that raised, every node of the mapping is bound to the
\* datastore the roster holds in self.db (the one a node made next would get).
C15_DatastoreCoherence ==
    \A k \in DOMAIN rosters : rosters[k].db = db

\* C16: set_backend(d) on a roster just constructed without a datastore leaves
\* the state Roster(xmpp, d) is constructed in, given that d's enumeration
\* returns the same both times: the same keys, the same self.db, on every node
\* the same datastore and the same flags, and the same defaults.
C16_LateAttachEquivalent ==
    [][(lastOp = "__init__" /\ db = None /\ lastOp' = "set_backend") =>
          \A d \in DBs, es \in Range(enum') : ~es.raised /\ SetBackend(d, es) =>
             LET c == init(d, es)
             IN  /\ ret'.status = c.status
                 /\ db' = c.self.db
                 /\ auto_authorize' = c.self.auto_authorize
                 /\ auto_subscribe' = c.self.auto_subscribe
                 /\ DOMAIN rosters' = DOMAIN c.self.rosters
                 /\ \A k \in DOMAIN rosters' :
                       /\ rosters'[k].db = c.self.rosters[k].db
                       /\ rosters'[k].auto_authorize = c.self.rosters[k].auto_authorize
                       /\ rosters'[k].auto_subscribe = c.self.rosters[k].auto_subscribe]_vars

\* set_backend returned on a roster whose two nodes all come from its
\* enumeration and whose defaults are those of construction
C16_Witness ==
    /\ lastOp = "set_backend"
    /\ ret.status = "ok"
    /\ auto_authorize = "True" /\ auto_subscribe = "True"
    /\ Cardinality(DOMAIN rosters) = 2
    /\ DOMAIN rosters = Texts(enum[1])
    /\ \A k \in DOMAIN rosters :
          /\ rosters[k].id = <<k, 1>>
          /\ rosters[k].sb_calls = <<db>>
          /\ rosters[k].auto_authorize = "NodeDefault"
          /\ rosters[k].auto_subscribe = "NodeDefault"

\* C14: when one thread has run add(i) and another set_backend(d), d's
\* enumeration having returned, in whatever interleaving, then once both have
\* finished i's key is in the mapping, every node (i's too) is bound to d, and
\* neither call raised.
C14_SetBackendAtomicWithAdd ==
    \A t \in Threads, u \in Threads :
        (/\ thr[t].op = "add" /\ thr[t].pc = "done"
         /\ thr[u].op = "set_backend" /\ thr[u].pc = "done"
         /\ thr[u].d # None /\ ~thr[u].raised) =>
            /\ thr[t].key \in DOMAIN rosters
            /\ \A k \in DOMAIN rosters : rosters[k].db = thr[u].d
            /\ thr[t].status = "ok"
            /\ thr[u].status = "ok"

\* C17: when two threads call __getitem__ or add for the same identity, in
\* whatever interleaving, at most one node is ever constructed for it, two
\* lookups return the same node, and the node a lookup has returned stays the
\* one the mapping holds.  (Stated for two calls with the same argument; the
\* code breaks it there.)
C17_OneNodeUnderRace ==
    \A t \in Threads : \A u \in Threads \ {t} :
        (/\ thr[t].op \in {"add", "__getitem__"}
         /\ thr[u].op \in {"add", "__getitem__"}
         /\ thr[t].arg = thr[u].arg) =>
            /\ made[thr[t].key] <= 1
            /\ (thr[t].pc = "done" /\ thr[t].op = "__getitem__") =>
                   /\ rosters[thr[t].key].id = thr[t].result
                   /\ ((thr[u].pc = "done" /\ thr[u].op = "__getitem__") =>
                          thr[u].result = thr[t].result)

====
